---------------------------- MODULE Spec2Model ----------------------------
(***************************************************************************)
(* A model of downloadgeo.py: the batch loop of __main__ over download_geo,*)
(* the listing fetcher, the file downloader, the two fallbacks and the     *)
(* archive extractor, together with the local filesystem they act on.      *)
(*                                                                         *)
(* Strings are sequences of symbols.  A symbol is one character, except    *)
(* that the word "series_matrix" and the character U+00B2 (written "sup2") *)
(* are one symbol each.                                                    *)
(***************************************************************************)
EXTENDS Integers, Sequences, FiniteSets, TLC

VARIABLES
    batch,      \* geo_list: the IDs of the batch, as __main__ hands them over
    opts,       \* [raw, matrix, extract]: the flags parsed from sys.argv
    idx,        \* position of the for loop of __main__ in geo_list
    pc,         \* position of the program inside the current iteration
    ph,         \* position in PhaseOrder of the category being acquired
    files,      \* the listing handed to download_files_with_requests
    k,          \* position of its for loop in files
    todo,       \* files os.walk found that fallback_with_wget has yet to pass to extract_file
    fs,         \* the local files: path -> "good" | "bad" content
    dirs,       \* the local directories created so far
    stat,       \* per batch position: what was reported for the ID
    hist,       \* per batch position and category: what was requested and run
    last,       \* the network and extraction events of the latest step, in order
    pos,        \* the latest event before those
    exitCode,   \* the exit status of the process, -1 while it runs
    arg,        \* the arguments of the latest call of a function checked on its own
    res         \* its result

vars == <<batch, opts, idx, pc, ph, files, k, todo, fs, dirs, stat, hist, last,
          pos, exitCode, arg, res>>

-----------------------------------------------------------------------------
(* Bounds of the model. *)

MaxBatch == 2       \* longest geo_list
MaxDigits == 5      \* longest numeric suffix given to get_geo_prefix on its own
MaxAnchors == 3     \* most anchors of a listing page given to download_file_list on its own

-----------------------------------------------------------------------------
(* Strings. *)

StartsWith(s, p) == Len(s) >= Len(p) /\ SubSeq(s, 1, Len(p)) = p

EndsWith(s, p) == Len(s) >= Len(p) /\ SubSeq(s, Len(s) - Len(p) + 1, Len(s)) = p

Contains(s, p) == \E i \in 0..(Len(s) - Len(p)) : SubSeq(s, i + 1, i + Len(p)) = p

\* s[n:]
SliceFrom(s, n) == SubSeq(s, n + 1, Len(s))

\* s[:-n]
DropLast(s, n) == SubSeq(s, 1, Len(s) - n)

\* s[m:-n]
SliceMid(s, m, n) == SubSeq(s, m + 1, Len(s) - n)

Whitespace == {" "}

RECURSIVE LStrip(_)
LStrip(s) == IF s # <<>> /\ Head(s) \in Whitespace THEN LStrip(Tail(s)) ELSE s

RECURSIVE RStrip(_)
RStrip(s) ==
    IF s # <<>> /\ s[Len(s)] \in Whitespace THEN RStrip(DropLast(s, 1)) ELSE s

\* str.strip()
Strip(s) == RStrip(LStrip(s))

\* The upper case of the letters the IDs of the model are written with.
UpperChar(c) ==
    CASE c = "g" -> "G"
      [] c = "s" -> "S"
      [] c = "e" -> "E"
      [] c = "m" -> "M"
      [] OTHER -> c

\* str.upper()
Upper(s) == [i \in 1..Len(s) |-> UpperChar(s[i])]

AsciiDigits == {"0", "1", "2", "3", "4", "5", "6", "7", "8", "9"}

\* The characters str.isdigit() accepts: the decimal digits and the characters
\* of Numeric_Type=Digit, such as SUPERSCRIPT TWO.
PyDigits == AsciiDigits \cup {"sup2"}

\* str.isdigit(): at least one character, all of them digits.
IsDigit(s) == s # <<>> /\ \A i \in 1..Len(s) : s[i] \in PyDigits

DigitVal(c) ==
    CASE c = "0" -> 0 [] c = "1" -> 1 [] c = "2" -> 2 [] c = "3" -> 3
      [] c = "4" -> 4 [] c = "5" -> 5 [] c = "6" -> 6 [] c = "7" -> 7
      [] c = "8" -> 8 [] c = "9" -> 9

RECURSIVE DecVal(_)
DecVal(s) == IF s = <<>> THEN 0 ELSE 10 * DecVal(DropLast(s, 1)) + DigitVal(s[Len(s)])

\* int(s) raises ValueError unless s is a decimal numeral.
IntRaises(s) == ~(s # <<>> /\ \A i \in 1..Len(s) : s[i] \in AsciiDigits)

\* int(s) of a decimal numeral
IntOf(s) == DecVal(s)

GSE == <<"G", "S", "E">>
nnn == <<"n", "n", "n">>
ValueError == <<"ValueError">>

\* get_geo_prefix(geo_id): the bucket, or ValueError when int() raises.
get_geo_prefix(geo_id) ==
    IF IntRaises(SliceFrom(geo_id, 3)) THEN ValueError
    ELSE IF IntOf(SliceFrom(geo_id, 3)) < 1000 THEN GSE \o nnn
    ELSE GSE \o SliceMid(geo_id, 3, 3) \o nnn

\* The test of download_geo that lets an ID through.
IsValidId(geo_id) == StartsWith(geo_id, GSE) /\ IsDigit(SliceFrom(geo_id, 3))

\* geo_id.strip().upper()
Normalize(raw) == Upper(Strip(raw))


-----------------------------------------------------------------------------
(* download_file_list. *)

Slash == <<"/">>
Http == <<"h", "t", "t", "p">>
SeriesMatrix == <<"series_matrix">>

\* An <a> tag: its href attribute, when it has one.
Anchor(h) == [has |-> TRUE, href |-> h]
NoHref == [has |-> FALSE, href |-> <<>>]

\* What requests.get gave: a transport error (raised), or a status and a body;
\* a body is empty text, or text with the anchors the parser finds in it.
RespError == [raised |-> TRUE, status |-> 0, empty |-> TRUE, anchors |-> <<>>]
RespHttp(st, as) == [raised |-> FALSE, status |-> st, empty |-> FALSE, anchors |-> as]
RespEmpty(st) == [raised |-> FALSE, status |-> st, empty |-> TRUE, anchors |-> <<>>]

\* The value of download_file_list: None, or a list of names.
None == [none |-> TRUE, names |-> <<>>]
Names(l) == [none |-> FALSE, names |-> l]

\* The condition of the list comprehension.
KeepHref(a) ==
    /\ a.has /\ a.href # <<>>
    /\ ~EndsWith(a.href, Slash)
    /\ ~StartsWith(a.href, Http)

Hrefs(as) == [i \in 1..Len(as) |-> as[i].href]

\* The keyword filter; an absent or empty keyword (<<>>) filters nothing.
KeywordFilter(l, keyword) ==
    LET Has(f) == Contains(f, keyword)
    IN  IF keyword # <<>> THEN SelectSeq(l, Has) ELSE l

download_file_list(resp, keyword) ==
    IF resp.raised THEN None
    ELSE IF resp.status # 200 \/ resp.empty THEN None
    ELSE Names(KeywordFilter(Hrefs(SelectSeq(resp.anchors, KeepHref)), keyword))

\* The test of the listing, inverted.
TruthyInverted(l) == l.none \/ l.names = <<>>

\* if suppl_files: / if matrix_files:
Truthy(l) == ~l.none /\ l.names # <<>>

-----------------------------------------------------------------------------
(* extract_file. *)

DotGz == <<".", "g", "z">>
DotTar == <<".", "t", "a", "r">>
DotTarGz == DotTar \o DotGz

\* The members of every tar archive the server holds: plain relative names.
TarMembers == {<<"x">>}

\* Where "tar -xf filepath", run without -C in the working directory of the
\* process, puts a member: at the member's name under the working directory.
UntarTarget(filepath, member) == member

\* subprocess.run of an external program: it cannot be started (OSError is
\* raised), or it runs and exits.
Launches == {"started", "oserror"}

\* extract_file did nothing to the files f.
Untouched(f) == [fs |-> f, kind |-> "none", result |-> "none", made |-> {}]

\* The .gz branch: the sibling exists (skip), gzip.open fails on a missing
\* file before the sibling is opened, or the sibling is opened for writing
\* and the copy completes for good content and raises for bad content.
Gunzip(f, filepath) ==
    LET output_file == DropLast(filepath, 3)
    IN  IF output_file \in DOMAIN f
        THEN [fs |-> f, kind |-> "gunzip", result |-> "skip", made |-> {}]
        ELSE IF filepath \notin DOMAIN f
        THEN [fs |-> f, kind |-> "gunzip", result |-> "failed", made |-> {}]
        ELSE [fs |-> (output_file :> f[filepath]) @@ f, kind |-> "gunzip",
              result |-> IF f[filepath] = "good" THEN "ok" ELSE "failed",
              made |-> {output_file}]

\* The .tar branch: only CalledProcessError (a non-zero exit) is caught.
Untar(f, filepath, launch) ==
    LET made == {UntarTarget(filepath, m) : m \in TarMembers}
    IN  IF launch = "oserror"
        THEN [fs |-> f, kind |-> "untar", result |-> "raised", made |-> {}]
        ELSE IF filepath \in DOMAIN f /\ f[filepath] = "good"
        THEN [fs |-> [p \in made |-> "good"] @@ f, kind |-> "untar",
              result |-> "ok", made |-> made]
        ELSE [fs |-> f, kind |-> "untar", result |-> "failed", made |-> {}]

\* extract_file(filepath) on the files f, when starting tar goes as `launch`.
extract_file(f, filepath, launch) ==
    IF EndsWith(filepath, DotGz) /\ ~EndsWith(filepath, DotTarGz)
    THEN Gunzip(f, filepath)
    ELSE IF EndsWith(filepath, DotTar)
    THEN Untar(f, filepath, launch)
    ELSE Untouched(f)

\* The outcomes of extract_file(filepath).
ExtractOutcomes(f, filepath) == {extract_file(f, filepath, l) : l \in Launches}

-----------------------------------------------------------------------------
(* The run: what the server, the network and the external programs can do. *)

\* os.path.join(outdir, fname)
Join(outdir, fname) ==
    IF StartsWith(fname, Slash) THEN fname ELSE outdir \o Slash \o fname

RawTar == <<"r">> \o DotTar
MatrixGz == SeriesMatrix \o DotGz

\* f"{geo_id}_series_matrix.txt.gz"
DirectName(geo_id) == geo_id \o <<"_">> \o SeriesMatrix \o <<".", "t", "x", "t">> \o DotGz

\* The listing pages of the server: a link to the parent directory alone, or
\* followed by the files of the directory.
PageBare == <<Anchor(Slash)>>
PageFiles == <<Anchor(Slash), Anchor(RawTar), Anchor(MatrixGz)>>

ListingResponses ==
    {RespError, RespEmpty(200), RespHttp(404, PageBare),
     RespHttp(200, PageBare), RespHttp(200, PageFiles)}

\* The streaming GET of one file: the request raises, the status is not 200,
\* or the status is 200 and the body arrives whole or the stream breaks after
\* the local file was opened.
GetOutcomes == {"raised", "status", "good", "bad"}

\* What "wget -r -nc" brings from suppl/: each file whole, broken or not at all.
MirrorFetches == [{RawTar, MatrixGz} -> {"absent", "good", "bad"}]

\* What "wget -O out_path" leaves at out_path.
DirectOutcomes == {"absent", "good", "bad"}

Cats == {"raw", "matrix"}

\* The two blocks of download_geo in the other order.
PhaseOrderSwapped == <<"matrix", "raw">>

\* download_geo acquires the raw files, then the matrix files.
PhaseOrder == <<"raw", "matrix">>

Requested(o, c) == IF c = "raw" THEN o.raw ELSE o.matrix

\* keyword of the listing request of a category
KeywordOf(c) == IF c = "raw" THEN <<>> ELSE SeriesMatrix

-----------------------------------------------------------------------------
(* The run: its state. *)

\* The IDs a batch is made of, stripped as __main__ strips them.
IdSmall == <<"g", "s", "e", "9">>
IdNoDigits == <<"G", "S", "E">>
IdSample == <<"G", "S", "M", "1">>
IdSuperscript == <<"G", "S", "E", "sup2">>
IdPool == {IdSmall, IdNoDigits, IdSample, IdSuperscript}

Batches == UNION {[1..n -> IdPool] : n \in 0..MaxBatch}

\* raw and matrix as __main__ derives them from --raw and --matrix.
Options ==
    {[raw |-> r, matrix |-> m, extract |-> x] :
        r \in BOOLEAN, m \in BOOLEAN, x \in BOOLEAN} \ 
    {[raw |-> FALSE, matrix |-> FALSE, extract |-> x] : x \in BOOLEAN}

\* The files found when the run starts: none, or those of an earlier run.
EarlierRun ==
    LET d == Normalize(IdSmall)
    IN  (Join(d, RawTar) :> "good") @@ (Join(d, DirectName(d)) :> "good")
Empty == [p \in {} |-> "good"]
InitialFiles == {Empty, EarlierRun}

\* An event: a request or an extraction, the file or URL it is about, and
\* for an extraction how it went.
NoEvent ==
    [i |-> 0, cat |-> "none", k |-> 0, kind |-> "none", path |-> <<>>, result |-> "none"]
Event(c, n, kind, path, result) ==
    [i |-> idx, cat |-> c, k |-> n, kind |-> kind, path |-> path, result |-> result]

NoHist ==
    [lists |-> 0, listing |-> "unset", streams |-> 0, fallbacks |-> 0,
     gets |-> 0, nfiles |-> 0, failed |-> FALSE]

Idle == arg = <<>> /\ res = <<>>

Init ==
    /\ batch \in Batches
    /\ opts \in Options
    /\ fs \in InitialFiles
    /\ dirs = IF fs = Empty THEN {} ELSE {Normalize(IdSmall)}
    /\ idx = 1
    /\ pc = "loop"
    /\ ph = 0
    /\ files = <<>>
    /\ k = 0
    /\ todo = {}
    /\ stat = [i \in 1..Len(batch) |-> "pending"]
    /\ hist = [i \in 1..Len(batch) |-> [c \in Cats |-> NoHist]]
    /\ last = <<>>
    /\ pos = NoEvent
    /\ exitCode = -1
    /\ Idle

geo_id == Normalize(batch[idx])
Cat == PhaseOrder[ph]

\* The latest event so far.
Latest == IF last = <<>> THEN pos ELSE last[Len(last)]

\* An uncaught exception: the traceback ends the process with status 1.
Crash(evs) ==
    /\ pc' = "crashed"
    /\ exitCode' = 1
    /\ stat' = [stat EXCEPT ![idx] = "raised"]
    /\ last' = evs
    /\ pos' = Latest
    /\ UNCHANGED <<batch, opts, idx, ph, files, k, todo, dirs, arg, res>>

\* The categories still to acquire after position p of PhaseOrder.
Later(p) == {q \in (p + 1)..Len(PhaseOrder) : Requested(opts, PhaseOrder[q])}

\* After position p of PhaseOrder: on to the next requested category, or the
\* completion report and the next ID.
Advance(p) ==
    IF Later(p) # {}
    THEN /\ ph' = CHOOSE q \in Later(p) : \A r \in Later(p) : q <= r
         /\ pc' = "list"
         /\ UNCHANGED <<idx, stat>>
    ELSE /\ ph' = 0
         /\ pc' = "loop"
         /\ stat' = [stat EXCEPT ![idx] = "complete"]
         /\ idx' = idx + 1


\* The for loop of __main__ is over: the closing line, exit status 0.
Finish ==
    /\ pc = "loop" /\ idx > Len(batch)
    /\ pc' = "done"
    /\ exitCode' = 0
    /\ last' = <<>>
    /\ pos' = Latest
    /\ UNCHANGED <<batch, opts, idx, ph, files, k, todo, fs, dirs, stat, hist, arg, res>>

\* download_geo: the ID fails the test, is reported and skipped.
InvalidId ==
    /\ pc = "loop" /\ idx <= Len(batch)
    /\ ~IsValidId(geo_id)
    /\ stat' = [stat EXCEPT ![idx] = "invalid"]
    /\ idx' = idx + 1
    /\ last' = <<>>
    /\ pos' = Latest
    /\ UNCHANGED <<batch, opts, pc, ph, files, k, todo, fs, dirs, hist, exitCode, arg, res>>

\* download_geo: the ID passes the test and int() raises in get_geo_prefix.
PrefixRaises ==
    /\ pc = "loop" /\ idx <= Len(batch)
    /\ IsValidId(geo_id)
    /\ get_geo_prefix(geo_id) = ValueError
    /\ Crash(<<>>)
    /\ UNCHANGED <<fs, hist>>

\* download_geo: the ID passes, its URLs are built and its directory made.
BeginId ==
    /\ pc = "loop" /\ idx <= Len(batch)
    /\ IsValidId(geo_id)
    /\ get_geo_prefix(geo_id) # ValueError
    /\ dirs' = dirs \cup {geo_id}
    /\ Advance(0)
    /\ last' = <<>>
    /\ pos' = Latest
    /\ UNCHANGED <<batch, opts, files, k, todo, fs, hist, exitCode, arg, res>>

SeriesRoot == <<"https://ftp.ncbi.nlm.nih.gov/geo/series/">>

\* suppl_url, matrix_url
DirUrl(id, c) ==
    SeriesRoot \o get_geo_prefix(id) \o Slash \o id \o Slash
        \o (IF c = "raw" THEN <<"suppl">> ELSE <<"matrix">>) \o Slash

\* download_geo: the listing of the category is requested, and the listed
\* files are handed to download_files_with_requests or the fallback is chosen.
Listing ==
    /\ pc = "list"
    /\ \E resp \in ListingResponses :
        LET l == download_file_list(resp, KeywordOf(Cat))
            h == [hist[idx][Cat] EXCEPT
                    !.lists = @ + 1,
                    !.listing = IF l.none THEN "none"
                                ELSE IF l.names = <<>> THEN "empty" ELSE "names",
                    !.nfiles = Len(l.names),
                    !.streams = IF Truthy(l) THEN @ + 1 ELSE @]
        IN  /\ hist' = [hist EXCEPT ![idx][Cat] = h]
            /\ last' = <<Event(Cat, 0, "list", DirUrl(geo_id, Cat), "sent")>>
            /\ IF Truthy(l)
               THEN \* download_files_with_requests: os.makedirs(outdir, exist_ok=True)
                    /\ dirs' = dirs \cup {geo_id}
                    /\ IF l.names # <<>>   \* else the loop over the list ends at once
                       THEN /\ pc' = "stream" /\ files' = l.names /\ k' = 1
                            /\ UNCHANGED <<idx, ph, stat>>
                       ELSE Advance(ph) /\ UNCHANGED <<files, k>>
               ELSE /\ pc' = "fallback"
                    /\ UNCHANGED <<idx, ph, stat, files, k, dirs>>
    /\ pos' = Latest
    /\ UNCHANGED <<batch, opts, todo, fs, exitCode, arg, res>>

\* The fetch without the existence test.
FetchAlways(f, out_path) == TRUE

\* if os.path.exists(out_path): ... else: fetch
ShouldFetch(f, out_path) == out_path \notin DOMAIN f

\* The files after the streaming GET of out_path went as `o`.
Written(f, out_path, o) ==
    IF o \in {"good", "bad"} THEN (out_path :> o) @@ f ELSE f

\* The event of an extraction, when extract_file took one of its branches.
ExtractEvents(c, n, r, path) ==
    IF r.kind = "none" THEN <<>> ELSE <<Event(c, n, r.kind, path, r.result)>>

\* One round of the loop of download_files_with_requests: the existence
\* test, the streaming GET, extract_file.
download_files_with_requests ==
    /\ pc = "stream" /\ k <= Len(files)
    /\ LET fname == files[k]
           out_path == Join(geo_id, fname)
           fetch == ShouldFetch(fs, out_path)
       IN  \E o \in IF fetch THEN GetOutcomes ELSE {"skip"} :
           LET f1 == Written(fs, out_path, o)
               get == IF fetch THEN <<Event(Cat, k, "get", out_path, "sent")>> ELSE <<>>
               h == [hist[idx][Cat] EXCEPT
                       !.gets = IF fetch THEN @ + 1 ELSE @,
                       !.failed = @ \/ o \in {"raised", "status"}]
           IN  /\ hist' = [hist EXCEPT ![idx][Cat] = h]
               /\ \E r \in IF opts.extract THEN ExtractOutcomes(f1, out_path)
                                           ELSE {Untouched(f1)} :
                    /\ fs' = r.fs
                    /\ IF r.result = "raised"
                       THEN Crash(get \o ExtractEvents(Cat, k, r, out_path))
                       ELSE /\ last' = get \o ExtractEvents(Cat, k, r, out_path)
                            /\ pos' = Latest
                            /\ IF k < Len(files)
                               THEN /\ k' = k + 1
                                    /\ UNCHANGED <<idx, pc, ph, stat, files>>
                               ELSE /\ k' = 0 /\ files' = <<>>
                                    /\ Advance(ph)
                            /\ UNCHANGED <<batch, opts, todo, dirs, exitCode, arg, res>>

\* The files "wget -r -nc -P outdir" adds: it leaves the existing ones alone.
Mirrored(f, outdir, g) ==
    LET new == {n \in DOMAIN g : g[n] # "absent" /\ Join(outdir, n) \notin DOMAIN f}
    IN  [p \in {Join(outdir, n) : n \in new} |->
            g[CHOOSE n \in new : Join(outdir, n) = p]] @@ f

\* The files os.walk(outdir) passes to extract_file.
Walked(f, outdir) ==
    {p \in DOMAIN f : /\ StartsWith(p, outdir \o Slash)
                      /\ (EndsWith(p, DotTar) \/ EndsWith(p, DotGz))}

\* fallback_with_wget, up to the walk of the output directory.
fallback_with_wget ==
    /\ pc = "fallback" /\ Cat = "raw"
    /\ hist' = [hist EXCEPT ![idx][Cat].fallbacks = @ + 1]
    /\ LET ev == <<Event(Cat, 0, "mirror", DirUrl(geo_id, Cat), "sent")>>
       IN  \E launch \in Launches :
           IF launch = "oserror"
           THEN Crash(ev) /\ UNCHANGED fs
           ELSE \E g \in MirrorFetches :
                LET f1 == Mirrored(fs, geo_id, g)
                    w == IF opts.extract THEN Walked(f1, geo_id) ELSE {}
                IN  /\ fs' = f1
                    /\ last' = ev
                    /\ pos' = Latest
                    /\ todo' = w
                    /\ IF w # {}
                       THEN pc' = "walk" /\ UNCHANGED <<idx, ph, stat>>
                       ELSE Advance(ph)
                    /\ UNCHANGED <<batch, opts, files, k, dirs, exitCode, arg, res>>

\* fallback_with_wget: extract_file on one of the files the walk found.
WalkExtract ==
    /\ pc = "walk"
    /\ \E p \in todo : \E r \in ExtractOutcomes(fs, p) :
        /\ fs' = r.fs
        /\ IF r.result = "raised"
           THEN Crash(ExtractEvents(Cat, 0, r, p))
           ELSE /\ last' = ExtractEvents(Cat, 0, r, p)
                /\ pos' = Latest
                /\ todo' = todo \ {p}
                /\ IF todo \ {p} # {}
                   THEN UNCHANGED <<idx, pc, ph, stat>>
                   ELSE Advance(ph)
                /\ UNCHANGED <<batch, opts, files, k, dirs, exitCode, arg, res>>
    /\ UNCHANGED hist

\* fallback_download_matrix: the existence test, wget -O, extract_file.
fallback_download_matrix ==
    /\ pc = "fallback" /\ Cat = "matrix"
    /\ hist' = [hist EXCEPT ![idx][Cat].fallbacks = @ + 1]
    /\ LET out_path == Join(geo_id, DirectName(geo_id))
           fetch == ShouldFetch(fs, out_path)
           ev == IF fetch THEN <<Event(Cat, 0, "direct", out_path, "sent")>> ELSE <<>>
       IN  \E launch \in IF fetch THEN Launches ELSE {"started"} :
           IF launch = "oserror"
           THEN Crash(ev) /\ UNCHANGED fs
           ELSE \E o \in IF fetch THEN DirectOutcomes ELSE {"skip"} :
                LET f1 == Written(fs, out_path, o)
                IN  \E r \in IF opts.extract THEN ExtractOutcomes(f1, out_path)
                                             ELSE {Untouched(f1)} :
                    /\ fs' = r.fs
                    /\ last' = ev \o ExtractEvents(Cat, 0, r, out_path)
                    /\ pos' = Latest
                    /\ Advance(ph)
                    /\ UNCHANGED <<batch, opts, files, k, todo, dirs, exitCode, arg, res>>

Next ==
    \/ Finish
    \/ InvalidId
    \/ PrefixRaises
    \/ BeginId
    \/ Listing
    \/ download_files_with_requests
    \/ fallback_with_wget
    \/ WalkExtract
    \/ fallback_download_matrix

\* A download run of the program.
Spec == Init /\ [][Next]_vars

-----------------------------------------------------------------------------
(* get_geo_prefix and download_file_list on their own. *)

\* The state of the run while a function is checked on its own.
Parked ==
    /\ batch = <<>>
    /\ opts = [raw |-> TRUE, matrix |-> TRUE, extract |-> FALSE]
    /\ fs = Empty
    /\ dirs = {}
    /\ idx = 1
    /\ pc = "parked"
    /\ ph = 0
    /\ files = <<>>
    /\ k = 0
    /\ todo = {}
    /\ stat = <<>>
    /\ hist = <<>>
    /\ last = <<>>
    /\ pos = NoEvent
    /\ exitCode = -1

runVars == <<batch, opts, idx, pc, ph, files, k, todo, fs, dirs, stat, hist, last,
             pos, exitCode>>

\* The numeric suffixes of the IDs that pass the test of download_geo.
SuffixChars == {"0", "1", "sup2"}
Suffixes == UNION {[1..n -> SuffixChars] : n \in 1..MaxDigits}

PrefixInit == Parked /\ Idle

\* get_geo_prefix on two IDs that download_geo lets through.
PrefixCall ==
    /\ arg = <<>>
    /\ \E a \in Suffixes, b \in Suffixes :
        /\ arg' = <<GSE \o a, GSE \o b>>
        /\ res' = <<get_geo_prefix(GSE \o a), get_geo_prefix(GSE \o b)>>
    /\ UNCHANGED runVars

SpecPrefix == PrefixInit /\ [][PrefixCall]_vars

\* The anchors of a listing page.
AnchorPool ==
    {NoHref, Anchor(<<>>), Anchor(<<"d", "/">>), Anchor(<<"a">>),
     Anchor(Http \o <<":", "/", "/", "x">>),
     Anchor(<<"f", "t", "p", ":", "/", "/", "x">>),
     Anchor(Http \o <<"d">>),
     Anchor(MatrixGz)}
Pages == UNION {[1..n -> AnchorPool] : n \in 0..MaxAnchors}

Responses ==
    {RespError} \cup {RespEmpty(st) : st \in {200, 404}}
        \cup {RespHttp(st, p) : st \in {200, 404}, p \in Pages}

ListInit == Parked /\ Idle

\* download_file_list on a response, without and with a keyword.
ListCall ==
    /\ arg = <<>>
    /\ \E resp \in Responses, keyword \in {<<>>, SeriesMatrix} :
        /\ arg' = <<resp, keyword>>
        /\ res' = download_file_list(resp, keyword)
    /\ UNCHANGED runVars

SpecListing == ListInit /\ [][ListCall]_vars

-----------------------------------------------------------------------------
(* Vocabulary of the properties. *)

Ended == pc \in {"done", "crashed"}

\* An ID as the specification words it: GSE followed by one or more of 0..9.
GseAndDigits(id) ==
    /\ StartsWith(id, GSE)
    /\ Len(id) > 3
    /\ \A n \in 4..Len(id) : id[n] \in AsciiDigits

Positions == 1..Len(batch)

Events == <<pos>> \o last

Inside(path, dir) == StartsWith(path, dir \o Slash)

Requests == {"list", "get", "mirror", "direct"}
Extractions == {"gunzip", "untar"}

CatRank(c) == CASE c = "raw" -> 1 [] c = "matrix" -> 2 [] OTHER -> 0

KindRank(kd) ==
    CASE kd = "list" -> 1
      [] kd \in {"get", "mirror", "direct"} -> 2
      [] kd \in Extractions -> 3
      [] OTHER -> 0

\* e1 lies strictly before e2 in (ID position, category, place in the listing).
EarlierUnit(e1, e2) ==
    \/ e1.i < e2.i
    \/ e1.i = e2.i /\ CatRank(e1.cat) < CatRank(e2.cat)
    \/ e1.i = e2.i /\ e1.cat = e2.cat /\ e1.k < e2.k

SameUnit(e1, e2) == e1.i = e2.i /\ e1.cat = e2.cat /\ e1.k = e2.k

\* e2 may follow e1: a later unit of work, or the same unit with the listing
\* before the fetch before the extraction (the extractions of one mirror
\* fetch follow each other).
InOrder(e1, e2) ==
    \/ EarlierUnit(e1, e2)
    \/ /\ SameUnit(e1, e2)
       /\ \/ KindRank(e1.kind) < KindRank(e2.kind)
          \/ e1.k = 0 /\ e1.kind \in Extractions /\ e2.kind \in Extractions

-----------------------------------------------------------------------------
(* Properties. *)

\* What C1 asks of one step of the run.
C1_Step ==
    /\ \A n \in 1..Len(last') :
          last'[n].kind \in {"get", "direct"} => last'[n].path \notin DOMAIN fs
    /\ (pc = "stream" /\ Join(geo_id, files[k]) \in DOMAIN fs) =>
          /\ \A n \in 1..Len(last') : last'[n].kind \notin Requests
          /\ hist'[idx][Cat].gets = hist[idx][Cat].gets
          /\ Join(geo_id, files[k]) \in DOMAIN fs'
          /\ fs'[Join(geo_id, files[k])] = fs[Join(geo_id, files[k])]
    /\ (pc = "fallback" /\ Cat = "matrix"
            /\ Join(geo_id, DirectName(geo_id)) \in DOMAIN fs) =>
          /\ \A n \in 1..Len(last') : last'[n].kind \notin Requests
          /\ Join(geo_id, DirectName(geo_id)) \in DOMAIN fs'
          /\ fs'[Join(geo_id, DirectName(geo_id))] = fs[Join(geo_id, DirectName(geo_id))]

\* C1: a streaming GET or a direct matrix fetch is issued only for a local
\* path that does not exist when the file is reached; when the path exists no
\* request is issued for the file and the file is left as it was.
C1_FetchOnlyIfAbsent == [][C1_Step]_vars

\* C1, its case: an ID whose raw files were fetched and whose listed matrix
\* file, found on disk, was passed over without a request.
C1_SkippedExisting ==
    \E i \in Positions :
        /\ stat[i] = "complete"
        /\ hist[i]["raw"].gets > 0
        /\ hist[i]["matrix"].listing = "names"
        /\ hist[i]["matrix"].gets = 0

\* C2: every ID of the batch that is not GSE followed by digits is reported
\* invalid, causes no request and no directory, and the IDs after it are
\* processed.
C2_InvalidIdSkipped ==
    Ended =>
        \A i \in Positions :
            ~GseAndDigits(Normalize(batch[i])) =>
                /\ stat[i] = "invalid"
                /\ \A c \in Cats : hist[i][c].lists = 0 /\ hist[i][c].fallbacks = 0
                /\ Normalize(batch[i]) \notin dirs
                /\ \A j \in Positions : j > i => stat[j] # "pending"

\* C3: no failure aborts the batch: the run ends with the closing line and
\* exit status 0, every ID processed and every valid ID reported complete.
C3_NoFailureAbortsBatch ==
    Ended =>
        /\ pc = "done"
        /\ exitCode = 0
        /\ \A i \in Positions :
              /\ stat[i] \in {"invalid", "complete"}
              /\ IsValidId(Normalize(batch[i])) => stat[i] = "complete"

\* C4: the bucket of a valid ID with number n is GSEnnn for n < 1000 and
\* otherwise GSE, the suffix without its last three digits, nnn; two IDs with
\* n >= 1000 and the same n \div 1000 share a bucket, and IDs with different
\* n \div 1000 have different buckets.
C4_BucketsOfThousand ==
    (arg # <<>> /\ GseAndDigits(arg[1]) /\ GseAndDigits(arg[2])) =>
        LET na == DecVal(SliceFrom(arg[1], 3))
            nb == DecVal(SliceFrom(arg[2], 3))
        IN  /\ na < 1000 => res[1] = GSE \o nnn
            /\ na >= 1000 =>
                  res[1] = GSE \o DropLast(SliceFrom(arg[1], 3), 3) \o nnn
            /\ (na >= 1000 /\ nb >= 1000 /\ na \div 1000 = nb \div 1000) =>
                  res[1] = res[2]
            /\ na \div 1000 # nb \div 1000 => res[1] # res[2]

\* C5: the events of a run are in order: ID by ID, within an ID the raw
\* category before the matrix category, within a streamed listing file by
\* file in listing order, a file's fetch before its extraction.
C5_EventsInOrder ==
    \A n \in 1..(Len(Events) - 1) : InOrder(Events[n], Events[n + 1])

\* C5, its case: the first event of the second ID, after a first ID whose two
\* listed raw files were streamed and whose matrix listing was requested.
C5_SecondIdStarts ==
    /\ pos.i = 1 /\ pos.cat = "matrix"
    /\ last # <<>> /\ last[1].i = 2
    /\ hist[1]["raw"].nfiles = 2 /\ hist[1]["raw"].gets = 2
    /\ opts.extract

\* C6, as the specification words it: when a listed file of a category fails
\* to stream, the fallback is invoked for that category.
C6_FallbackAfterStreamFailure ==
    \A i \in Positions : \A c \in Cats :
        (stat[i] = "complete" /\ hist[i][c].failed) => hist[i][c].fallbacks >= 1

\* C6, amended: a listed file that fails to stream does not bring the
\* fallback of its category; the fallback is invoked only when the listing
\* request failed or listed nothing, the mirror fetch for raw and the direct
\* fetch for matrix.
C6_FallbackOnlyWithoutListing ==
    /\ \A i \in Positions : \A c \in Cats :
          /\ hist[i][c].failed => hist[i][c].fallbacks = 0
          /\ hist[i][c].fallbacks > 0 => hist[i][c].listing \in {"none", "empty"}
    /\ \A n \in 1..Len(last) :
          /\ last[n].kind = "mirror" => last[n].cat = "raw"
          /\ last[n].kind = "direct" => last[n].cat = "matrix"

\* C6, its case: an ID reported complete with a category in which a listed
\* file failed to stream.
C6_StreamFailedNoFallback ==
    \E i \in Positions : \E c \in Cats :
        stat[i] = "complete" /\ hist[i][c].failed /\ hist[i][c].fallbacks = 0

\* A target that starts with a URL scheme: letters, digits, +, - and . after
\* a first letter, up to a colon.
Letters ==
    {"a", "b", "c", "d", "e", "f", "g", "h", "i", "j", "k", "l", "m", "n", "o",
     "p", "q", "r", "s", "t", "u", "v", "w", "x", "y", "z"}
HasScheme(h) ==
    \E n \in 2..Len(h) :
        /\ h[n] = ":"
        /\ h[1] \in Letters
        /\ \A j \in 1..(n - 1) : h[j] \in Letters \cup AsciiDigits \cup {"+", "-", "."}

IsFileName(a) ==
    a.has /\ a.href # <<>> /\ ~EndsWith(a.href, Slash) /\ ~HasScheme(a.href)

\* C7: on a 200 response with a body the result is, in page order, the anchor
\* targets that neither end in / nor start with a URL scheme, restricted to
\* those containing the keyword when one is given; otherwise it is None.
C7_ListingFilter ==
    arg # <<>> =>
        LET resp == arg[1]
            keyword == arg[2]
            HasKeyword(f) == Contains(f, keyword)
            wanted == Hrefs(SelectSeq(resp.anchors, IsFileName))
        IN  IF ~resp.raised /\ resp.status = 200 /\ ~resp.empty
            THEN res = Names(IF keyword = <<>> THEN wanted
                             ELSE SelectSeq(wanted, HasKeyword))
            ELSE res = None

\* C8: for every valid ID and requested category one listing request is
\* made and exactly one strategy runs, once: streaming exactly when the
\* listing has names, the fallback otherwise; no file is requested twice.
C8_OneStrategyOnce ==
    Ended =>
        \A i \in Positions : \A c \in Cats :
            (GseAndDigits(Normalize(batch[i])) /\ Requested(opts, c)) =>
                /\ hist[i][c].lists = 1
                /\ hist[i][c].streams + hist[i][c].fallbacks = 1
                /\ hist[i][c].streams = 1 <=> hist[i][c].listing = "names"
                /\ hist[i][c].gets <= hist[i][c].nfiles

\* What C9 asks of one step of the run.
C9_Step ==
    (\E n \in 1..Len(last') : last'[n].kind = "untar" /\ last'[n].result = "ok") =>
        \A p \in DOMAIN fs' \ DOMAIN fs : Inside(p, geo_id)

\* C9: a successful extraction of a .tar archive of an ID's output directory
\* creates files only inside that directory.
C9_UnpackedInsideOutputDir == [][C9_Step]_vars

\* C10: after a failed extraction of a .gz file the sibling without .gz does
\* not exist.
C10_FailedGunzipLeavesNoSibling ==
    \A n \in 1..Len(last) :
        (last[n].kind = "gunzip" /\ last[n].result = "failed") =>
            DropLast(last[n].path, 3) \notin DOMAIN fs

=============================================================================
